---- MODULE Spec2Model ----
(***************************************************************************)
(* Floating-window manager of the MindSphere UI                            *)
(* (ui-mindsphere/src/mindsphere-app.ts): the window registry, the stage   *)
(* clamp, the z-order, maximize/restore, the drag/resize gesture with its  *)
(* animation-frame batching, and the stage reflow on viewport resize.      *)
(*                                                                         *)
(* Lengths are fixed-point numbers: one pixel is Scale units, so that the  *)
(* fractional rectangles getBoundingClientRect() reports and Math.floor    *)
(* are represented exactly.                                                *)
(***************************************************************************)
EXTENDS Integers, Sequences, FiniteSets, TLC

VARIABLES
    stageEl,      \* this.stageEl: "null" before firstUpdated, "stage" after
    stage,        \* what stageEl.getBoundingClientRect() reports now
    windows,      \* this.windows: WindowId -> WindowState
    dragActive,   \* this.dragActive: <<>> (null) or <<[id, kind, startX, startY, base]>>
    dragPending,  \* this.dragPending: <<>> (null) or <<[id, next]>>
    dragRaf,      \* this.dragRaf: <<>> (null) or <<handle>>
    listeners,    \* the onMove/onUp closure pairs attached to window, in order of attachment
    presses,      \* number of gestures begun so far (bounds the exploration)
    resizes,      \* number of resize events so far (bounds the exploration)
    lastFront,    \* history: the window bring-to-front was last performed on
    lastMove,     \* history: the last move event that reached scheduleDragUpdate since the
                  \* last frame, and whether its gesture has been released
    lastRestore,  \* history: <<>>, or <<[id, restore]>> when the last step un-maximized
                  \* window id, which held that restore field
    rafQueue,     \* number of callbacks handed to requestAnimationFrame and not yet run
    mounted,      \* the host element is connected to the document
    composerH,    \* this.composerH: the height of the composer panel
    storage,      \* localStorage item "mindsphere:composerH": <<>> (absent) or <<characters>>
    composerDrags, \* the onMove/onUp closure pairs of beginComposerResize attached to
                  \* window, in order of attachment
    gateway,      \* this.booted, this.client, this.connected, this.hello, this.lastError
                  \* and the gateway clients constructed so far
    http          \* one call of handleMindsphereUiHttpRequest: req, the request (url and
                  \* method); env, what the handler reads from the process and the file
                  \* system; res, the response object; returned, <<>> before the call,
                  \* then what the call produced

vars == <<stageEl, stage, windows, dragActive, dragPending, dragRaf, listeners,
          presses, resizes, lastFront, lastMove, lastRestore, rafQueue, mounted,
          composerH, storage, composerDrags, gateway, http>>

----------------------------------------------------------------------------
(* Bounds of the exploration *)

Scale == 2          \* fixed-point units per pixel
MaxZ == 6           \* z values are explored up to this value
MaxPress == 2       \* gestures begun per behaviour
MaxResize == 1      \* viewport resize events per behaviour

Px(n) == n * Scale

(* Math.floor on fixed-point numbers (x % Scale is non-negative in TLA+) *)
Floor(v) == v - (v % Scale)

Max(a, b) == IF a >= b THEN a ELSE b
Min(a, b) == IF a <= b THEN a ELSE b

Null == <<>>
Some(v) == <<v>>
IsNull(o) == o = <<>>
Val(o) == o[1]

----------------------------------------------------------------------------
(* Data model *)

WindowId == {"chat", "tasks", "agents"}
Kinds == {"move", "resize"}

Rect(x, y, w, h) == [x |-> x, y |-> y, w |-> w, h |-> h]

WinState(open, x, y, w, h, z) ==
    [open |-> open, x |-> x, y |-> y, w |-> w, h |-> h, z |-> z,
     maximized |-> FALSE, restore |-> Null]

(* The field initialiser of `windows` *)
InitialWindows ==
    [id \in WindowId |->
        CASE id = "chat"   -> WinState(FALSE, Px(40),  Px(40), Px(520), Px(520), 1)
          [] id = "tasks"  -> WinState(FALSE, Px(90),  Px(70), Px(620), Px(520), 2)
          [] id = "agents" -> WinState(FALSE, Px(140), Px(90), Px(860), Px(560), 3)]

(* The rectangle the stage element reports at first layout *)
InitialStage == [width |-> Px(1000), height |-> Px(800)]

(* Rectangles the stage element reports after a viewport resize: the same
   stage, a fractional one and one smaller than the minimum window size. *)
Stages ==
    { InitialStage,
      [width |-> Px(500) + 1, height |-> Px(400) + 1],
      [width |-> Px(300), height |-> Px(200)] }

(* The windows the user opens from the toolbar in the explored behaviours; the
   third stays closed, and is still reclamped with the others. *)
UserWindows == {"chat", "tasks"}

(* clientX/clientY of the pointerdown events and of the pointermove events *)
PressPoints == { <<Px(600), Px(400)>> }
MovePoints == { <<Px(0), Px(0)>>, <<Px(1200), Px(800)>> }

----------------------------------------------------------------------------
(* Geometry clamp *)

minW == Px(320)
minH == Px(240)

(* clampWindowToStage once the stage rectangle r has been read *)
ClampAt(r, s) ==
    IF s.maximized
    THEN [s EXCEPT !.x = 0, !.y = 0, !.w = Floor(r.width), !.h = Floor(r.height)]
    ELSE LET w == Max(minW, Min(s.w, Max(minW, r.width)))
             h == Max(minH, Min(s.h, Max(minH, r.height)))
             maxX == Max(0, r.width - w)
             maxY == Max(0, r.height - h)
             x == Max(0, Min(s.x, maxX))
             y == Max(0, Min(s.y, maxY))
         IN [s EXCEPT !.x = x, !.y = y, !.w = w, !.h = h]

ClampWith(el, r, s) == IF el = "null" THEN s ELSE ClampAt(r, s)

(* Variant of the clamp: the position is clamped against the size as given,
   not against the clamped size *)
ClampAtRawSize(r, s) ==
    IF s.maximized
    THEN [s EXCEPT !.x = 0, !.y = 0, !.w = Floor(r.width), !.h = Floor(r.height)]
    ELSE LET w == Max(minW, Min(s.w, Max(minW, r.width)))
             h == Max(minH, Min(s.h, Max(minH, r.height)))
             x == Max(0, Min(s.x, Max(0, r.width - s.w)))
             y == Max(0, Min(s.y, Max(0, r.height - s.h)))
         IN [s EXCEPT !.x = x, !.y = y, !.w = w, !.h = h]

clampRawSize(id, s) == IF stageEl = "null" THEN s ELSE ClampAtRawSize(stage, s)

(* Variant of the clamp: the size is limited by the stage only, without the
   minimum size *)
ClampAtNoMinimum(r, s) ==
    IF s.maximized
    THEN [s EXCEPT !.x = 0, !.y = 0, !.w = Floor(r.width), !.h = Floor(r.height)]
    ELSE LET w == Min(s.w, Max(minW, r.width))
             h == Min(s.h, Max(minH, r.height))
             x == Max(0, Min(s.x, Max(0, r.width - w)))
             y == Max(0, Min(s.y, Max(0, r.height - h)))
         IN [s EXCEPT !.x = x, !.y = y, !.w = w, !.h = h]

clampNoMinimum(id, s) == IF stageEl = "null" THEN s ELSE ClampAtNoMinimum(stage, s)

clampWindowToStage(id, s) == ClampWith(stageEl, stage, s)

----------------------------------------------------------------------------
(* Z-order *)

RECURSIVE SetMax(_)
SetMax(S) ==
    LET a == CHOOSE v \in S : TRUE
    IN IF S = {a} THEN a ELSE Max(a, SetMax(S \ {a}))

(* Math.max(...Object.values(ws).map(w => w.z)) *)
ZTop(ws) == SetMax({ws[i].z : i \in WindowId})

(* Variant of bringToFront: the window is raised even when it is on top *)
bringToFrontAlways(ws, id) ==
    [ws EXCEPT ![id] = [ws[id] EXCEPT !.z = ZTop(ws) + 1]]

(* The greatest z among the open windows of ws, 0 when none is open *)
ZTopOpen(ws) == SetMax({0} \cup {ws[i].z : i \in {j \in WindowId : ws[j].open}})

(* Variant of bringToFront: the top is taken among the open windows only *)
bringToFrontOpen(ws, id) ==
    LET zTop == ZTopOpen(ws)
        cur == ws[id]
    IN IF cur.z = zTop THEN ws ELSE [ws EXCEPT ![id] = [cur EXCEPT !.z = zTop + 1]]

(* bringToFront as a function of the registry *)
bringToFront(ws, id) ==
    LET zTop == ZTop(ws)
        cur == ws[id]
    IN IF cur.z = zTop THEN ws ELSE [ws EXCEPT ![id] = [cur EXCEPT !.z = zTop + 1]]

----------------------------------------------------------------------------
(* Composer height: the panel height kept in localStorage as text *)

defaultComposerH == Px(108)     \* the field initialiser of composerH
composerMinH == Px(84)          \* minH of beginComposerResize

(* maxH of beginComposerResize: Math.floor(window.innerHeight * 0.72), for a
   viewport height of ih whole pixels *)
composerMaxH(ih) == Px((ih * 72) \div 100)

MaxFraction == 6    \* decimal places String() prints at Scale units per pixel

DigitChars == <<"0", "1", "2", "3", "4", "5", "6", "7", "8", "9">>

RECURSIVE Pow10(_)
Pow10(k) == IF k = 0 THEN 1 ELSE 10 * Pow10(k - 1)

(* The decimal digits of the natural number n *)
RECURSIVE DigitsOf(_)
DigitsOf(n) ==
    IF n < 10 THEN <<DigitChars[n + 1]>>
    ELSE Append(DigitsOf(n \div 10), DigitChars[(n % 10) + 1])

(* The decimal places of r / Scale, by long division, at most k of them *)
RECURSIVE FractionOf(_, _)
FractionOf(r, k) ==
    IF r = 0 \/ k = 0 THEN <<>>
    ELSE <<DigitChars[((r * 10) \div Scale) + 1]>> \o FractionOf((r * 10) % Scale, k - 1)

(* String(v) of the number v: the characters of its decimal notation *)
String(v) ==
    LET a == IF v < 0 THEN 0 - v ELSE v
        fr == FractionOf(a % Scale, MaxFraction)
    IN (IF v < 0 THEN <<"-">> ELSE <<>>) \o DigitsOf(a \div Scale)
          \o (IF fr = <<>> THEN <<>> ELSE <<".">> \o fr)

IsDigits(s) == \A i \in 1..Len(s) : \E d \in 1..10 : DigitChars[d] = s[i]

(* The natural number written by the digits s; 0 for no digits *)
RECURSIVE NatOf(_)
NatOf(s) ==
    IF s = <<>> THEN 0
    ELSE 10 * NatOf(SubSeq(s, 1, Len(s) - 1))
            + ((CHOOSE d \in 1..10 : DigitChars[d] = s[Len(s)]) - 1)

InfinityLiteral == <<"I", "n", "f", "i", "n", "i", "t", "y">>

(* Number(s) of the characters s: the empty string is 0, a signed decimal
   literal is its value, to the nearest unit, "Infinity" is infinite and
   anything else is NaN *)
Number(s) ==
    LET signed == s # <<>> /\ s[1] \in {"-", "+"}
        body == IF signed THEN Tail(s) ELSE s
        dots == {i \in 1..Len(body) : body[i] = "."}
        dot == IF dots = {} THEN Len(body) + 1 ELSE CHOOSE i \in dots : TRUE
        int == SubSeq(body, 1, dot - 1)
        frac == SubSeq(body, dot + 1, Len(body))
        p == Pow10(Len(frac))
        a == NatOf(int) * Scale + ((2 * NatOf(frac) * Scale + p) \div (2 * p))
    IN IF s = <<>> THEN [kind |-> "number", v |-> 0]
       ELSE IF body = InfinityLiteral THEN [kind |-> "Infinity", v |-> 0]
       ELSE IF /\ Cardinality(dots) <= 1
               /\ IsDigits(int) /\ IsDigits(frac)
               /\ Len(int) + Len(frac) > 0
               /\ Len(frac) <= MaxFraction
            THEN [kind |-> "number", v |-> IF signed /\ s[1] = "-" THEN 0 - a ELSE a]
            ELSE [kind |-> "NaN", v |-> 0]

(* The composer height firstUpdated leaves, from the stored item st and the
   height h of the field: the stored number when finite and positive *)
restoreComposerH(st, h) ==
    LET savedH == Number(IF IsNull(st) THEN <<>> ELSE Val(st))
    IN IF savedH.kind = "number" /\ savedH.v > 0 THEN savedH.v ELSE h

(* onMove of the composer closure l for a pointer at height y *)
composerOnMove(l, y) ==
    LET dy == l.startY - y
    IN Max(composerMinH, Min(l.maxH, l.baseH + dy))

(* The composer height after the composer closures i.. have seen the event *)
RECURSIVE composerDispatch(_, _, _)
composerDispatch(i, y, h) ==
    IF i > Len(composerDrags) THEN h
    ELSE composerDispatch(i + 1, y, composerOnMove(composerDrags[i], y))

(* Variant of onUp of the composer: the height held at the press is stored *)
composerOnUpBase(l, h) == String(l.baseH)

(* onUp of the composer closure l: the characters stored under the key *)
composerOnUp(l, h) == String(h)

----------------------------------------------------------------------------
(* The gateway connection. gateway.client is 0 for null, else the position in
   gateway.clients of the client the element holds. A client is known here by
   what it is told (stop) and by the callbacks it delivers; each client's
   socket field records the callbacks it has delivered: "connecting" until its
   first hello, "open" after a hello, "closed" after a close. *)

MaxClients == 2

initialGateway ==
    [booted |-> FALSE, client |-> 0, clients |-> <<>>,
     connected |-> FALSE, hello |-> Null, lastError |-> Null]

connect(g) ==
    LET stopped == IF g.client = 0 THEN g.clients
                   ELSE [g.clients EXCEPT ![g.client].stopped = TRUE]
    IN [g EXCEPT !.lastError = Null,
                 !.hello = Null,
                 !.connected = FALSE,
                 !.clients = Append(stopped, [stopped |-> FALSE, socket |-> "connecting"]),
                 !.client = Len(g.clients) + 1]

(* Variant of connectedCallback: every attachment connects again *)
connectedCallbackEveryTime(g) == connect([g EXCEPT !.booted = TRUE])

connectedCallback(g) ==
    IF g.booted THEN g ELSE connect([g EXCEPT !.booted = TRUE])

onHello(g, hello) ==
    [g EXCEPT !.connected = TRUE, !.lastError = Null, !.hello = Some(hello)]

onClose(g, code, reason) ==
    [g EXCEPT !.connected = FALSE,
              !.lastError = IF code # 1012
                            THEN Some(<<"disconnected", code,
                                        IF reason = "" THEN "no reason" ELSE reason>>)
                            ELSE g.lastError]

onGap(g, expected, received) ==
    [g EXCEPT !.lastError = Some(<<"event gap detected", expected, received>>)]

(* handleGatewayEvent: only a chat event is handled; the chat controller may
   leave an error message in the chat state, which is copied back *)
handleGatewayEvent(g, evt, err) ==
    IF evt # "chat" THEN g
    ELSE [g EXCEPT !.lastError = IF IsNull(err) THEN g.lastError ELSE err]

----------------------------------------------------------------------------
(* The HTTP handler of the MindSphere UI assets. A string is a sequence of
   tokens: the separators "/" and "?" and the names between them, so that
   "/ms/app.js" is <<"/", "ms", "/", "app.js">>. *)

ROOT_PREFIX == <<"/", "ms">>

startsWith(s, p) == Len(s) >= Len(p) /\ SubSeq(s, 1, Len(p)) = p
slice(s, n) == SubSeq(s, n + 1, Len(s))
Last(s) == s[Len(s)]
Front(s) == SubSeq(s, 1, Len(s) - 1)

(* The part of a raw URL before its query *)
RECURSIVE BeforeQuery(_)
BeforeQuery(s) ==
    IF s = <<>> \/ Head(s) = "?" THEN <<>> ELSE <<Head(s)>> \o BeforeQuery(Tail(s))

RECURSIVE SkipSlashes(_)
SkipSlashes(s) == IF s # <<>> /\ Head(s) = "/" THEN SkipSlashes(Tail(s)) ELSE s

(* The segments of a path that starts with "/": "" is an empty segment *)
RECURSIVE Segments(_)
Segments(t) ==
    IF t = <<>> THEN <<>>
    ELSE IF Len(t) >= 2 /\ t[2] # "/" THEN <<t[2]>> \o Segments(slice(t, 2))
    ELSE <<"">> \o Segments(Tail(t))

(* The URL parser's path state: "." and ".." segments are resolved *)
RECURSIVE RemoveDotSegments(_, _)
RemoveDotSegments(segs, out) ==
    IF segs = <<>> THEN out
    ELSE LET s == Head(segs)
             last == Len(segs) = 1
             popped == IF out = <<>> THEN out ELSE Front(out)
         IN IF s = ".." THEN RemoveDotSegments(Tail(segs),
                                IF last THEN Append(popped, "") ELSE popped)
            ELSE IF s = "." THEN RemoveDotSegments(Tail(segs),
                                IF last THEN Append(out, "") ELSE out)
            ELSE RemoveDotSegments(Tail(segs), Append(out, s))

RECURSIVE PathOf(_)
PathOf(segs) ==
    IF segs = <<>> THEN <<>>
    ELSE (IF Head(segs) = "" THEN <<"/">> ELSE <<"/", Head(segs)>>) \o PathOf(Tail(segs))

(* new URL(urlRaw, "http://localhost"): ok is FALSE where the constructor
   throws; pathname is the parsed path *)
URL(urlRaw) ==
    LET raw == BeforeQuery(urlRaw)
        schemeRelative == startsWith(raw, <<"/", "/">>)
        rest == SkipSlashes(raw)
        path == IF schemeRelative THEN Tail(rest)
                ELSE IF startsWith(raw, <<"/">>) THEN raw
                ELSE <<"/">> \o raw
        segs == RemoveDotSegments(Segments(path), <<>>)
    IN IF schemeRelative /\ rest = <<>>
       THEN [ok |-> FALSE, pathname |-> <<>>]
       ELSE [ok |-> TRUE, pathname |-> IF segs = <<>> THEN <<"/">> ELSE PathOf(segs)]

(* path.posix.normalize *)
RECURSIVE NormalizeSegments(_, _, _)
NormalizeSegments(names, out, absolute) ==
    IF names = <<>> THEN out
    ELSE LET s == Head(names)
         IN IF s = "." THEN NormalizeSegments(Tail(names), out, absolute)
            ELSE IF s = ".."
            THEN IF out # <<>> /\ Last(out) # ".."
                 THEN NormalizeSegments(Tail(names), Front(out), absolute)
                 ELSE IF absolute THEN NormalizeSegments(Tail(names), out, absolute)
                 ELSE NormalizeSegments(Tail(names), Append(out, ".."), absolute)
            ELSE NormalizeSegments(Tail(names), Append(out, s), absolute)

RECURSIVE JoinNames(_)
JoinNames(names) ==
    IF names = <<>> THEN <<>>
    ELSE IF Len(names) = 1 THEN names
    ELSE <<Head(names), "/">> \o JoinNames(Tail(names))

normalize(p) ==
    IF p = <<>> THEN <<".">>
    ELSE LET absolute == Head(p) = "/"
             trailing == Last(p) = "/"
             names == NormalizeSegments(SelectSeq(p, LAMBDA t : t # "/"), <<>>, absolute)
             body == JoinNames(names)
         IN IF names = <<>>
            THEN IF absolute THEN <<"/">>
                 ELSE IF trailing THEN <<".", "/">> ELSE <<".">>
            ELSE (IF absolute THEN <<"/">> ELSE <<>>) \o body
                 \o (IF trailing THEN <<"/">> ELSE <<>>)

(* path.join of two parts *)
join(a, b) == normalize(a \o <<"/">> \o b)

NulChar == "NUL"

isSafeRelativePath(relPath) ==
    IF relPath = <<>> THEN FALSE
    ELSE LET normalized == normalize(relPath)
         IN IF startsWith(normalized, <<"..", "/">>) \/ normalized = <<"..">> THEN FALSE
            ELSE IF \E i \in 1..Len(normalized) : normalized[i] = NulChar THEN FALSE
            ELSE TRUE

basename(p) == LET names == SelectSeq(p, LAMBDA t : t # "/")
               IN IF names = <<>> THEN "" ELSE Last(names)

(* path.extname of the names the file system below holds *)
extname(p) ==
    LET name == basename(p)
    IN CASE name = "index.html" -> ".html"
         [] name = "app.js" -> ".js"
         [] name = "style.css" -> ".css"
         [] OTHER -> ""

contentTypeForExt(ext) ==
    CASE ext = ".html" -> "text/html; charset=utf-8"
      [] ext = ".js" -> "application/javascript; charset=utf-8"
      [] ext = ".css" -> "text/css; charset=utf-8"
      [] ext \in {".json", ".map"} -> "application/json; charset=utf-8"
      [] ext = ".svg" -> "image/svg+xml"
      [] ext = ".png" -> "image/png"
      [] ext \in {".jpg", ".jpeg"} -> "image/jpeg"
      [] ext = ".gif" -> "image/gif"
      [] ext = ".webp" -> "image/webp"
      [] ext = ".ico" -> "image/x-icon"
      [] OTHER -> "application/octet-stream"

(* The file system: under each directory of fs.built lie index.html, app.js and
   the directory assets; fs.index and fs.app say whether the file can be read.
   The result is "file", "unreadable", "dir" or "absent". *)
DistUi == <<"/", "dist", "/", "mindsphere-ui">>

statKind(fs, p) ==
    LET q == IF Len(p) > 1 /\ Last(p) = "/" THEN Front(p) ELSE p
        kind == IF \E b \in fs.built : q = b \o DistUi \/ q = b \o DistUi \o <<"/", "assets">>
                THEN "dir"
                ELSE IF \E b \in fs.built : q = b \o DistUi \o <<"/", "index.html">>
                THEN fs.index
                ELSE IF \E b \in fs.built : q = b \o DistUi \o <<"/", "app.js">>
                THEN fs.app
                ELSE "absent"
    IN IF q # p /\ kind # "dir" THEN "absent" ELSE kind

existsSync(fs, p) == statKind(fs, p) # "absent"
isDirectory(fs, p) == statKind(fs, p) = "dir"
(* fs.readFileSync throws where the file cannot be read *)
readFileSync(fs, p) ==
    IF statKind(fs, p) = "file" THEN [ok |-> TRUE, data |-> <<"contents of", basename(p)>>]
    ELSE [ok |-> FALSE, data |-> <<>>]

(* resolveMindsphereUiRootSync: the first candidate directory that holds an
   index.html, the package root's before the working directory's *)
RECURSIVE firstWithIndex(_, _)
firstWithIndex(fs, candidates) ==
    IF candidates = <<>> THEN Null
    ELSE IF existsSync(fs, join(Head(candidates), <<"index.html">>))
    THEN Some(Head(candidates))
    ELSE firstWithIndex(fs, Tail(candidates))

resolveMindsphereUiRootSync(e) ==
    IF ~e.argv1 THEN Null
    ELSE LET fromPackage == IF IsNull(e.packageRoot) THEN <<>>
                            ELSE <<join(Val(e.packageRoot), SubSeq(DistUi, 2, 4))>>
             fromCwd == join(e.cwd, SubSeq(DistUi, 2, 4))
         IN firstWithIndex(e.fs, IF fromPackage = <<fromCwd>> THEN fromPackage
                                 ELSE Append(fromPackage, fromCwd))

(* The response object: setHeader replaces the header of that name *)
freshResponse == [statusCode |-> 200, headers |-> {}, ended |-> 0, body |-> Null]

(* No request has been made *)
idleHttp == [req |-> Null, env |-> Null, res |-> freshResponse, returned |-> Null]

setHeader(r, name, value) ==
    [r EXCEPT !.headers = { h \in r.headers : h[1] # name } \cup { <<name, value>> }]
end(r, body) == [r EXCEPT !.ended = r.ended + 1, !.body = body]

applySecurityHeaders(r) ==
    setHeader(setHeader(setHeader(r, "X-Frame-Options", "DENY"),
                        "Content-Security-Policy", "frame-ancestors 'none'"),
              "X-Content-Type-Options", "nosniff")

respondNotFound(r) ==
    end(setHeader([r EXCEPT !.statusCode = 404], "Content-Type", "text/plain; charset=utf-8"),
        Some(<<"Not Found">>))

(* serveIndexHtml: the file is read before any header is set; the script is
   injected into what was read *)
serveIndexHtml(r, fs, indexPath) ==
    LET raw == readFileSync(fs, indexPath)
    IN IF ~raw.ok THEN [returned |-> "throw", res |-> r]
       ELSE [returned |-> "true",
             res |-> end(setHeader(setHeader(r, "Content-Type", "text/html; charset=utf-8"),
                                   "Cache-Control", "no-cache"),
                         Some(<<"script">> \o raw.data))]

(* The response when no asset root is found *)
missingAssets(r) ==
    end(setHeader([r EXCEPT !.statusCode = 404], "Content-Type", "text/plain; charset=utf-8"),
        Some(<<"MindSphere UI assets missing. Build with: pnpm ui:mindsphere:build">>))

(* The rest of the handler once the asset root is known *)
serveUnderRoot(q, e, r0, root, pathname) ==
    LET r == applySecurityHeaders(r0)
        rel == IF pathname = ROOT_PREFIX THEN <<"index.html">>
               ELSE slice(pathname, Len(ROOT_PREFIX) + 1)
        resolved == join(root, rel)
    IN IF ~isSafeRelativePath(rel) THEN [returned |-> "true", res |-> respondNotFound(r)]
       ELSE IF ~startsWith(resolved, root)
       THEN [returned |-> "true", res |-> respondNotFound(r)]
       ELSE IF ~existsSync(e.fs, resolved) \/ isDirectory(e.fs, resolved)
       THEN [returned |-> "true", res |-> respondNotFound(r)]
       ELSE IF basename(resolved) = "index.html" THEN serveIndexHtml(r, e.fs, resolved)
       ELSE LET r2 == setHeader(setHeader([r EXCEPT !.statusCode = 200], "Content-Type",
                                          contentTypeForExt(extname(resolved))),
                                "Cache-Control", "no-cache")
                data == readFileSync(e.fs, resolved)
            IN IF q.method = "HEAD" THEN [returned |-> "true", res |-> end(r2, Null)]
               ELSE IF ~data.ok THEN [returned |-> "throw", res |-> r2]
               ELSE [returned |-> "true", res |-> end(r2, Some(data.data))]

(* handleMindsphereUiHttpRequest: what the call produces ("true", "false" or
   "throw" for an exception that leaves the call) and the response after it *)
handleMindsphereUiHttpRequest(q, e, r) ==
    IF IsNull(q.url) \/ Val(q.url) = <<>> THEN [returned |-> "false", res |-> r]
    ELSE IF q.method # "GET" /\ q.method # "HEAD" THEN [returned |-> "false", res |-> r]
    ELSE LET url == URL(Val(q.url))
             pathname == url.pathname
         IN IF ~url.ok THEN [returned |-> "throw", res |-> r]
            ELSE IF pathname # ROOT_PREFIX /\ ~startsWith(pathname, ROOT_PREFIX \o <<"/">>)
            THEN [returned |-> "false", res |-> r]
            ELSE LET root == resolveMindsphereUiRootSync(e)
                 IN IF IsNull(root) THEN [returned |-> "true", res |-> missingAssets(r)]
                    ELSE serveUnderRoot(q, e, r, Val(root), pathname)

----------------------------------------------------------------------------
(* Initial state: the field initialisers of the element *)

Init ==
    /\ stageEl = "null"
    /\ stage = InitialStage
    /\ windows = InitialWindows
    /\ dragActive = Null
    /\ dragPending = Null
    /\ dragRaf = Null
    /\ listeners = <<>>
    /\ presses = 0
    /\ resizes = 0
    /\ lastFront = "none"
    /\ lastMove = Null
    /\ lastRestore = Null
    /\ rafQueue = 0
    /\ mounted = TRUE
    /\ composerH = defaultComposerH
    /\ storage = Null
    /\ composerDrags = <<>>
    /\ gateway = initialGateway
    /\ http = idleHttp

(* Variant of the reflow: maximized windows are left as they are *)
ReclampNormalOnly(el, r, ws) ==
    [id \in WindowId |-> IF ws[id].maximized THEN ws[id] ELSE ClampWith(el, r, ws[id])]

(* Variant of the reflow: the restore rect of a maximized window is clamped
   against the new stage as well *)
ReclampWithRestore(el, r, ws) ==
    [id \in WindowId |->
        LET s == ClampWith(el, r, ws[id])
        IN IF IsNull(s.restore) THEN s
           ELSE LET q == Val(s.restore)
                    c == ClampWith(el, r, [s EXCEPT !.x = q.x, !.y = q.y, !.w = q.w,
                                                    !.h = q.h, !.maximized = FALSE])
                IN [s EXCEPT !.restore = Some(Rect(c.x, c.y, c.w, c.h))]]

(* Every window of ws clamped against rectangle r of element el *)
ReclampAll(el, r, ws) == [id \in WindowId |-> ClampWith(el, r, ws[id])]

(* firstUpdated: restore the composer height from storage, find the stage
   element and clamp the initial windows *)
FirstUpdated ==
    /\ stageEl = "null"
    /\ composerH' = restoreComposerH(storage, composerH)
    /\ stageEl' = "stage"
    /\ windows' = ReclampAll("stage", stage, windows)
    /\ UNCHANGED <<rafQueue, mounted>>
    /\ UNCHANGED <<storage, composerDrags, gateway, http>>
    /\ lastRestore' = Null
    /\ UNCHANGED <<stage, dragActive, dragPending, dragRaf, listeners, presses,
                   resizes, lastFront, lastMove>>

(* The viewport changes the stage to r and the resize listener reclamps *)
ResizeEvent(r) ==
    /\ stageEl = "stage"
    /\ resizes < MaxResize
    /\ resizes' = resizes + 1
    /\ stage' = r
    /\ windows' = ReclampAll(stageEl, r, windows)
    /\ UNCHANGED <<rafQueue, mounted>>
    /\ UNCHANGED <<composerH, storage, composerDrags, gateway, http>>
    /\ lastRestore' = Null
    /\ UNCHANGED <<stageEl, dragActive, dragPending, dragRaf, listeners, presses,
                   lastFront, lastMove>>

(* The registry after toggleWindow(id) *)
toggleWindow(ws, id) ==
    LET cur == ws[id]
        nextOpen == ~cur.open
        zTop == ZTop(ws)
        next == clampWindowToStage(id,
                   [cur EXCEPT !.open = nextOpen,
                               !.z = IF nextOpen THEN zTop + 1 ELSE cur.z])
    IN [ws EXCEPT ![id] = next]

ToggleWindow(id) ==
    /\ mounted
    /\ stageEl = "stage"
    /\ windows' = toggleWindow(windows, id)
    /\ ZTop(windows') <= MaxZ
    /\ lastFront' = IF windows'[id].open THEN id ELSE lastFront
    /\ UNCHANGED <<rafQueue, mounted>>
    /\ UNCHANGED <<composerH, storage, composerDrags, gateway, http>>
    /\ lastRestore' = Null
    /\ UNCHANGED <<stageEl, stage, dragActive, dragPending, dragRaf, listeners,
                   presses, resizes, lastMove>>

(* pointerdown on the body of an open window: bringToFront(id) *)
PointerDownWindow(id) ==
    /\ mounted
    /\ stageEl = "stage"
    /\ windows[id].open
    /\ windows' = bringToFront(windows, id)
    /\ ZTop(windows') <= MaxZ
    /\ lastFront' = id
    /\ UNCHANGED <<rafQueue, mounted>>
    /\ UNCHANGED <<composerH, storage, composerDrags, gateway, http>>
    /\ lastRestore' = Null
    /\ UNCHANGED <<stageEl, stage, dragActive, dragPending, dragRaf, listeners,
                   presses, resizes, lastMove>>

(* Variant of toggleMaximizeWindow: un-maximizing leaves the restore rect set *)
toggleMaximizeKeepRestore(ws, id) ==
    LET cur == ws[id]
        zTop == ZTop(ws)
    IN IF ~cur.maximized
       THEN [ws EXCEPT ![id] = clampWindowToStage(id,
                [cur EXCEPT !.maximized = TRUE,
                            !.restore = Some(Rect(cur.x, cur.y, cur.w, cur.h)),
                            !.z = zTop + 1])]
       ELSE LET r == IF IsNull(cur.restore) THEN Rect(cur.x, cur.y, cur.w, cur.h)
                     ELSE Val(cur.restore)
            IN [ws EXCEPT ![id] = clampWindowToStage(id,
                   [cur EXCEPT !.x = r.x, !.y = r.y, !.w = r.w, !.h = r.h,
                               !.maximized = FALSE, !.z = zTop + 1])]

(* Variant of toggleMaximizeWindow: the restore rect is applied as saved,
   without the clamp *)
toggleMaximizeNoClamp(ws, id) ==
    LET cur == ws[id]
        zTop == ZTop(ws)
    IN IF ~cur.maximized
       THEN [ws EXCEPT ![id] = clampWindowToStage(id,
                [cur EXCEPT !.maximized = TRUE,
                            !.restore = Some(Rect(cur.x, cur.y, cur.w, cur.h)),
                            !.z = zTop + 1])]
       ELSE LET r == IF IsNull(cur.restore) THEN Rect(cur.x, cur.y, cur.w, cur.h)
                     ELSE Val(cur.restore)
            IN [ws EXCEPT ![id] =
                   [cur EXCEPT !.x = r.x, !.y = r.y, !.w = r.w, !.h = r.h,
                               !.maximized = FALSE, !.restore = Null, !.z = zTop + 1]]

(* Variant of toggleMaximizeWindow: the z of id is the one bringToFront(id)
   would give, unchanged when id is already on top *)
toggleMaximizeBringToFront(ws, id) ==
    LET cur == ws[id]
        z == bringToFront(ws, id)[id].z
    IN IF ~cur.maximized
       THEN [ws EXCEPT ![id] = clampWindowToStage(id,
                [cur EXCEPT !.maximized = TRUE,
                            !.restore = Some(Rect(cur.x, cur.y, cur.w, cur.h)),
                            !.z = z])]
       ELSE LET r == IF IsNull(cur.restore) THEN Rect(cur.x, cur.y, cur.w, cur.h)
                     ELSE Val(cur.restore)
            IN [ws EXCEPT ![id] = clampWindowToStage(id,
                   [cur EXCEPT !.x = r.x, !.y = r.y, !.w = r.w, !.h = r.h,
                               !.maximized = FALSE, !.restore = Null, !.z = z])]

(* The registry after toggleMaximizeWindow(id) *)
toggleMaximizeWindow(ws, id) ==
    LET cur == ws[id]
        nextMax == ~cur.maximized
        zTop == ZTop(ws)
    IN IF nextMax
       THEN LET restore == Rect(cur.x, cur.y, cur.w, cur.h)
                next == clampWindowToStage(id,
                           [cur EXCEPT !.maximized = TRUE,
                                       !.restore = Some(restore),
                                       !.z = zTop + 1])
            IN [ws EXCEPT ![id] = next]
       ELSE LET restore == cur.restore
                nextRaw ==
                    IF ~IsNull(restore)
                    THEN [cur EXCEPT !.x = Val(restore).x, !.y = Val(restore).y,
                                     !.w = Val(restore).w, !.h = Val(restore).h,
                                     !.maximized = FALSE, !.restore = Null,
                                     !.z = zTop + 1]
                    ELSE [cur EXCEPT !.maximized = FALSE, !.restore = Null,
                                     !.z = zTop + 1]
            IN [ws EXCEPT ![id] = clampWindowToStage(id, nextRaw)]

(* The maximize button or a double click on the header of an open window *)
ToggleMaximize(id) ==
    /\ mounted
    /\ stageEl = "stage"
    /\ windows[id].open
    /\ windows' = toggleMaximizeWindow(windows, id)
    /\ ZTop(windows') <= MaxZ
    /\ lastFront' = id
    /\ UNCHANGED <<rafQueue, mounted>>
    /\ UNCHANGED <<composerH, storage, composerDrags, gateway, http>>
    /\ lastRestore' = IF windows[id].maximized
                       THEN Some([id |-> id, restore |-> windows[id].restore])
                       ELSE Null
    /\ UNCHANGED <<stageEl, stage, dragActive, dragPending, dragRaf, listeners,
                   presses, resizes, lastMove>>

----------------------------------------------------------------------------
(* Drag/resize gesture and its animation-frame batching *)

(* Variant of scheduleDragUpdate: an update already pending is kept *)
scheduleDragUpdateFirst(pending, raf, id, next) ==
    [pending |-> IF ~IsNull(raf) THEN pending ELSE Some([id |-> id, next |-> next]),
     raf |-> IF ~IsNull(raf) THEN raf ELSE Some(1),
     requested |-> IsNull(raf)]

(* Variant of scheduleDragUpdate: a frame is requested at every call *)
scheduleDragUpdateEveryCall(pending, raf, id, next) ==
    [pending |-> Some([id |-> id, next |-> next]),
     raf |-> Some(1),
     requested |-> TRUE]

(* scheduleDragUpdate: the pending slot and the frame handle afterwards, and
   whether the call handed a callback to requestAnimationFrame *)
scheduleDragUpdate(pending, raf, id, next) ==
    [pending |-> Some([id |-> id, next |-> next]),
     raf |-> IF ~IsNull(raf) THEN raf ELSE Some(1),
     requested |-> IsNull(raf)]

(* The requestAnimationFrame callback: the registry afterwards *)
frameCommit(ws, p) ==
    IF IsNull(p) THEN ws ELSE [ws EXCEPT ![Val(p).id] = Val(p).next]

(* The snapshot beginDrag stores in dragActive.base: `cur`, read on entry *)
dragBase(ws, id) == ws[id]

(* Variant of the early returns of beginDrag: only the press on a button is
   refused *)
beginDragRefusedButtonOnly(cur, kind, onButton) ==
    kind = "move" /\ onButton

(* beginDrag's early returns: a maximized window, or a move press on a button *)
beginDragRefused(cur, kind, onButton) ==
    \/ cur.maximized
    \/ (kind = "move" /\ onButton)

(* Variant of nextRaw: the pointer delta displaces the position and the size,
   whatever the kind *)
nextRawBoth(base, kind, dx, dy) ==
    [base EXCEPT !.x = base.x + dx, !.y = base.y + dy,
                 !.w = base.w + dx, !.h = base.h + dy]

(* nextRaw of onMove: base displaced by the pointer delta, by the closure's kind *)
nextRaw(base, kind, dx, dy) ==
    IF kind = "move"
    THEN [base EXCEPT !.x = base.x + dx, !.y = base.y + dy]
    ELSE [base EXCEPT !.w = base.w + dx, !.h = base.h + dy]

(* The listeners whose onMove passes its guard for the active gesture *)
Matching ==
    IF IsNull(dragActive) THEN {}
    ELSE {i \in 1..Len(listeners) : listeners[i].id = Val(dragActive).id}

(* pointerdown on the header (kind "move") or on the resize handle (kind
   "resize") of an open window at pointer p: beginDrag, then the event bubbles
   to the window's own pointerdown handler, bringToFront. The resize handle is
   rendered only for a window that is not maximized. *)
PointerDownHandle(id, kind, p) ==
    /\ mounted
    /\ stageEl = "stage"
    /\ windows[id].open
    /\ kind = "resize" => ~windows[id].maximized
    /\ LET cur == windows[id]
       IN IF beginDragRefused(cur, kind, FALSE)
          THEN /\ windows' = bringToFront(windows, id)
               /\ UNCHANGED <<dragActive, listeners, presses>>
          ELSE /\ presses < MaxPress
               /\ windows' = bringToFront(bringToFront(windows, id), id)
               /\ dragActive' = Some([id |-> id, kind |-> kind,
                                      startX |-> p[1], startY |-> p[2],
                                      base |-> dragBase(windows, id)])
               /\ listeners' = Append(listeners, [id |-> id, kind |-> kind])
               /\ presses' = presses + 1
    /\ ZTop(windows') <= MaxZ
    /\ lastFront' = id
    /\ UNCHANGED <<rafQueue, mounted>>
    /\ UNCHANGED <<composerH, storage, composerDrags, gateway, http>>
    /\ lastRestore' = Null
    /\ UNCHANGED <<stageEl, stage, dragPending, dragRaf, resizes, lastMove>>

(* Variant of onMove: the pointer delta is applied to the live window state *)
onMoveLive(l, p) ==
    LET a == Val(dragActive)
        dx == p[1] - a.startX
        dy == p[2] - a.startY
    IN clampWindowToStage(l.id, nextRaw(windows[l.id], l.kind, dx, dy))

(* Variant of the press on a header button: the press is taken for a press on
   the header around the button *)
PointerDownButtonAsHeader(id) ==
    \E p \in PressPoints : PointerDownHandle(id, "move", p)

(* pointerdown on the maximize or the close button in the header of an open
   window: the button's own handler stops the propagation, so neither the
   header's beginDrag nor the window's bringToFront sees the event *)
PointerDownButton(id) ==
    /\ mounted
    /\ stageEl = "stage"
    /\ windows[id].open
    /\ lastRestore' = Null
    /\ UNCHANGED <<stageEl, stage, windows, dragActive, dragPending, dragRaf, listeners,
                   presses, resizes, lastFront, lastMove, rafQueue, mounted,
                   composerH, storage, composerDrags, gateway, http>>

(* onMove of the listener attached for (id, kind), past its guard: the clamped
   candidate it hands to scheduleDragUpdate *)
onMove(l, p) ==
    LET a == Val(dragActive)
        dx == p[1] - a.startX
        dy == p[2] - a.startY
    IN clampWindowToStage(l.id, nextRaw(a.base, l.kind, dx, dy))

(* The pending slot and frame handle after listeners i.. have seen the event,
   and the number of callbacks they handed to requestAnimationFrame *)
RECURSIVE dispatchMove(_, _, _, _)
dispatchMove(i, p, pending, raf) ==
    IF i > Len(listeners) THEN [pending |-> pending, raf |-> raf, requests |-> 0]
    ELSE IF i \in Matching
         THEN LET sched == scheduleDragUpdate(pending, raf, listeners[i].id,
                                              onMove(listeners[i], p))
                  rest == dispatchMove(i + 1, p, sched.pending, sched.raf)
              IN [rest EXCEPT !.requests = @ + (IF sched.requested THEN 1 ELSE 0)]
         ELSE dispatchMove(i + 1, p, pending, raf)

(* A pointermove at p reaches every attached onMove, in order of attachment *)
PointerMove(p) ==
    /\ stageEl = "stage"
    /\ listeners # <<>> \/ composerDrags # <<>>
    /\ composerH' = composerDispatch(1, p[2], composerH)
    /\ UNCHANGED <<storage, composerDrags, gateway, http>>
    /\ IF Matching = {}
       THEN UNCHANGED <<dragPending, dragRaf, lastMove, rafQueue>>
       ELSE LET a == Val(dragActive)
                after == dispatchMove(1, p, dragPending, dragRaf)
            IN /\ dragPending' = after.pending
               /\ dragRaf' = after.raf
               /\ rafQueue' = rafQueue + after.requests
               /\ lastMove' = Some([id |-> a.id,
                                    kind |-> listeners[SetMax(Matching)].kind,
                                    base |-> a.base,
                                    startX |-> a.startX, startY |-> a.startY,
                                    px |-> p[1], py |-> p[2], stage |-> stage,
                                    released |-> FALSE])
    /\ UNCHANGED mounted
    /\ lastRestore' = Null
    /\ UNCHANGED <<stageEl, stage, windows, dragActive, listeners, presses, resizes, lastFront>>

(* Variant of the release: onUp clears dragActive and leaves the listeners
   attached *)
PointerUpKeepsListeners ==
    /\ stageEl = "stage"
    /\ listeners # <<>> \/ composerDrags # <<>>
    /\ listeners' = listeners
    /\ dragActive' = Null
    /\ lastMove' = IF IsNull(lastMove) THEN lastMove
                   ELSE Some([Val(lastMove) EXCEPT !.released = TRUE])
    /\ composerDrags' = <<>>
    /\ UNCHANGED <<gateway, http>>
    /\ storage' = IF composerDrags = <<>> THEN storage
                  ELSE Some(composerOnUp(composerDrags[Len(composerDrags)], composerH))
    /\ UNCHANGED <<rafQueue, mounted, composerH>>
    /\ lastRestore' = Null
    /\ UNCHANGED <<stageEl, stage, windows, dragPending, dragRaf, presses, resizes,
                   lastFront>>

(* A pointerup reaches every attached onUp: each removes its listener pair, and
   each onUp of the composer stores the composer height *)
PointerUp ==
    /\ stageEl = "stage"
    /\ listeners # <<>> \/ composerDrags # <<>>
    /\ listeners' = <<>>
    /\ dragActive' = Null
    /\ lastMove' = IF IsNull(lastMove) THEN lastMove
                   ELSE Some([Val(lastMove) EXCEPT !.released = TRUE])
    /\ composerDrags' = <<>>
    /\ UNCHANGED <<gateway, http>>
    /\ storage' = IF composerDrags = <<>> THEN storage
                  ELSE Some(composerOnUp(composerDrags[Len(composerDrags)], composerH))
    /\ UNCHANGED <<rafQueue, mounted, composerH>>
    /\ lastRestore' = Null
    /\ UNCHANGED <<stageEl, stage, windows, dragPending, dragRaf, presses, resizes,
                   lastFront>>

(* The browser runs a callback that scheduleDragUpdate handed to
   requestAnimationFrame *)
FrameCallback ==
    /\ rafQueue > 0
    /\ rafQueue' = rafQueue - 1
    /\ dragRaf' = Null
    /\ dragPending' = Null
    /\ windows' = frameCommit(windows, dragPending)
    /\ lastMove' = Null
    /\ UNCHANGED <<mounted, composerH, storage, composerDrags, gateway, http>>
    /\ lastRestore' = Null
    /\ UNCHANGED <<stageEl, stage, dragActive, listeners, presses, resizes, lastFront>>

Next ==
    \/ FirstUpdated
    \/ \E r \in Stages : ResizeEvent(r)
    \/ \E id \in UserWindows : ToggleWindow(id)
    \/ \E id \in WindowId : PointerDownWindow(id)
    \/ \E id \in WindowId : ToggleMaximize(id)
    \/ \E id \in WindowId, kind \in Kinds, p \in PressPoints :
          PointerDownHandle(id, kind, p)
    \/ \E id \in WindowId : PointerDownButton(id)
    \/ \E p \in MovePoints : PointerMove(p)
    \/ PointerUp
    \/ FrameCallback

Spec == Init /\ [][Next]_vars

----------------------------------------------------------------------------
(* The host element is removed from the document. The element defines
   connectedCallback and firstUpdated and no disconnectedCallback: nothing is
   removed or reset, and the listeners on window and the requested frame stay.
   The rendered windows leave the document with the element, so that no
   pointerdown or click reaches them afterwards. *)

Unmount ==
    /\ mounted
    /\ stageEl = "stage"
    /\ mounted' = FALSE
    /\ lastRestore' = Null
    /\ UNCHANGED <<stageEl, stage, windows, dragActive, dragPending, dragRaf, listeners,
                   presses, resizes, lastFront, lastMove, rafQueue,
                   composerH, storage, composerDrags, gateway, http>>

(* The gesture of one window, with the element unmounted at any moment *)
UnmountNext ==
    \/ FirstUpdated
    \/ ToggleWindow("chat")
    \/ \E kind \in Kinds, p \in PressPoints : PointerDownHandle("chat", kind, p)
    \/ \E p \in MovePoints : PointerMove(p)
    \/ PointerUp
    \/ FrameCallback
    \/ Unmount

SpecUnmount == Init /\ [][UnmountNext]_vars

----------------------------------------------------------------------------
(* The composer resize gesture across page loads: the stored item outlives the
   element, which starts again from its field initialisers. *)

ComposerPressYs == { Px(850), Px(850) + 1 }
InnerHeights == { 100, 900 }
StorageInputs ==
    { Null, Some(<<>>), Some(<<"a", "b", "c">>), Some(<<"-", "5">>), Some(<<"0">>),
      Some(InfinityLiteral), Some(<<"9", "6">>), Some(String(Px(96) + 1)) }

(* pointerdown on the composer's resize handle at height y, the viewport being
   ih pixels high: beginComposerResize *)
ComposerPress(y, ih) ==
    /\ mounted
    /\ stageEl = "stage"
    /\ presses < MaxPress
    /\ composerDrags' = Append(composerDrags,
                               [startY |-> y, baseH |-> composerH,
                                maxH |-> composerMaxH(ih)])
    /\ presses' = presses + 1
    /\ lastRestore' = Null
    /\ UNCHANGED <<stageEl, stage, windows, dragActive, dragPending, dragRaf, listeners,
                   resizes, lastFront, lastMove, rafQueue, mounted, composerH, storage,
                   gateway, http>>

(* The page is loaded again: a new element with its field initialisers, no
   listener on the new window, the stored item as it was left *)
Reload ==
    /\ stageEl = "stage"
    /\ stageEl' = "null"
    /\ windows' = InitialWindows
    /\ dragActive' = Null
    /\ dragPending' = Null
    /\ dragRaf' = Null
    /\ listeners' = <<>>
    /\ lastFront' = "none"
    /\ lastMove' = Null
    /\ lastRestore' = Null
    /\ rafQueue' = 0
    /\ mounted' = TRUE
    /\ composerH' = defaultComposerH
    /\ composerDrags' = <<>>
    /\ UNCHANGED <<gateway, http>>
    /\ UNCHANGED <<stage, presses, resizes, storage>>

ComposerInit ==
    /\ stageEl = "null"
    /\ stage = InitialStage
    /\ windows = InitialWindows
    /\ dragActive = Null
    /\ dragPending = Null
    /\ dragRaf = Null
    /\ listeners = <<>>
    /\ presses = 0
    /\ resizes = 0
    /\ lastFront = "none"
    /\ lastMove = Null
    /\ lastRestore = Null
    /\ rafQueue = 0
    /\ mounted = TRUE
    /\ composerH = defaultComposerH
    /\ storage \in StorageInputs
    /\ composerDrags = <<>>
    /\ gateway = initialGateway
    /\ http = idleHttp

ComposerNext ==
    \/ FirstUpdated
    \/ \E y \in ComposerPressYs, ih \in InnerHeights : ComposerPress(y, ih)
    \/ \E p \in MovePoints : PointerMove(p)
    \/ PointerUp
    \/ Reload

SpecComposer == ComposerInit /\ [][ComposerNext]_vars

----------------------------------------------------------------------------
(* The clamp as a pure function: every window starts as the same arbitrary
   window state, against an arbitrary stage rectangle, and the clamp is applied
   to one window at a time. *)

ClampPositions == { <<0 - Px(100), 0 - Px(50)>>, <<Px(40), Px(40)>>,
                    <<Px(700) + 1, Px(750)>>, <<Px(2000), Px(90) + 1>> }
ClampSizes == { <<Px(100), Px(100)>>, <<Px(520), Px(520)>>, <<Px(600), Px(500) + 1>>,
                <<Px(2000) + 1, Px(240)>> }
ClampStages == Stages \cup { [width |-> 0, height |-> 0],
                             [width |-> Px(320), height |-> Px(1000) + 1] }

ClampInputs ==
    { [WinState(TRUE, xy[1], xy[2], wh[1], wh[2], 1) EXCEPT !.maximized = m,
          !.restore = IF m THEN Some(Rect(Px(40), Px(40), Px(520), Px(520))) ELSE Null] :
        xy \in ClampPositions, wh \in ClampSizes, m \in BOOLEAN }

ClampInit ==
    /\ stageEl = "stage"
    /\ stage \in ClampStages
    /\ \E s \in ClampInputs : windows = [id \in WindowId |-> s]
    /\ dragActive = Null
    /\ dragPending = Null
    /\ dragRaf = Null
    /\ listeners = <<>>
    /\ presses = 0
    /\ resizes = 0
    /\ lastFront = "none"
    /\ lastMove = Null
    /\ lastRestore = Null
    /\ rafQueue = 0
    /\ mounted = TRUE
    /\ composerH = defaultComposerH
    /\ storage = Null
    /\ composerDrags = <<>>
    /\ gateway = initialGateway
    /\ http = idleHttp

ClampApply(id) ==
    /\ windows' = [windows EXCEPT ![id] = clampWindowToStage(id, windows[id])]
    /\ UNCHANGED <<stageEl, stage, dragActive, dragPending, dragRaf, listeners,
                   presses, resizes, lastFront, lastMove, lastRestore, rafQueue, mounted,
                   composerH, storage, composerDrags, gateway, http>>

ClampNext == \E id \in WindowId : ClampApply(id)

SpecClamp == ClampInit /\ [][ClampNext]_vars

----------------------------------------------------------------------------
(* The gateway connection over the life of the element: the element is
   attached, detached and attached again, and every client constructed so far
   delivers its callbacks whenever its socket allows it, stopped or not. *)

Hellos == { "hello-1", "hello-2" }
CloseCodes == { 1000, 1006, 1012 }
CloseReasons == { "", "service restart", "going away" }
Gaps == { <<3, 5>>, <<8, 9>> }
GatewayEvents == { "chat", "presence" }
ChatErrors == { Null, Some(<<"chat error">>), Some(<<"run aborted">>) }

GatewayUnchanged ==
    UNCHANGED <<stageEl, stage, windows, dragActive, dragPending, dragRaf, listeners,
                presses, resizes, lastFront, lastMove, rafQueue,
                composerH, storage, composerDrags, http>>

(* The element is attached to the document: connectedCallback *)
ConnectedCallback ==
    /\ ~mounted \/ ~gateway.booted
    /\ Len(gateway.clients) < MaxClients
    /\ mounted' = TRUE
    /\ gateway' = connectedCallback(gateway)
    /\ lastRestore' = Null
    /\ GatewayUnchanged

(* Client c receives the gateway's hello *)
ClientHello(c, hello) ==
    /\ c \in 1..Len(gateway.clients)
    /\ gateway.clients[c].socket # "open"
    /\ gateway' = onHello([gateway EXCEPT !.clients[c].socket = "open"], hello)
    /\ lastRestore' = Null
    /\ UNCHANGED mounted
    /\ GatewayUnchanged

(* The socket of client c closes *)
ClientClose(c, code, reason) ==
    /\ c \in 1..Len(gateway.clients)
    /\ gateway.clients[c].socket # "closed"
    /\ gateway' = onClose([gateway EXCEPT !.clients[c].socket = "closed"], code, reason)
    /\ lastRestore' = Null
    /\ UNCHANGED mounted
    /\ GatewayUnchanged

(* Client c finds a gap in the sequence numbers of its events *)
ClientGap(c, gap) ==
    /\ c \in 1..Len(gateway.clients)
    /\ gateway.clients[c].socket = "open"
    /\ gateway' = onGap(gateway, gap[1], gap[2])
    /\ lastRestore' = Null
    /\ UNCHANGED mounted
    /\ GatewayUnchanged

(* Client c delivers an event frame *)
ClientEvent(c, evt, err) ==
    /\ c \in 1..Len(gateway.clients)
    /\ gateway.clients[c].socket = "open"
    /\ gateway' = handleGatewayEvent(gateway, evt, err)
    /\ lastRestore' = Null
    /\ UNCHANGED mounted
    /\ GatewayUnchanged

GatewayNext ==
    \/ FirstUpdated
    \/ Unmount
    \/ ConnectedCallback
    \/ \E c \in 1..MaxClients, hello \in Hellos : ClientHello(c, hello)
    \/ \E c \in 1..MaxClients, code \in CloseCodes, reason \in CloseReasons :
          ClientClose(c, code, reason)
    \/ \E c \in 1..MaxClients, gap \in Gaps : ClientGap(c, gap)
    \/ \E c \in 1..MaxClients, evt \in GatewayEvents, err \in ChatErrors :
          ClientEvent(c, evt, err)

SpecGateway == Init /\ [][GatewayNext]_vars

----------------------------------------------------------------------------
(* The HTTP handler as a function of the request and of what it finds in the
   process and on disk: one call on a fresh response. *)

PackageRoot == <<"/", "pkg">>
Cwd == <<"/", "cwd">>

Urls ==
    { Null, Some(<<>>),
      Some(<<"/">>), Some(<<"/", "msx">>), Some(<<"/", "/">>),
      Some(<<"/", "/", "ms", "/", "app.js">>),
      Some(<<"/", "ms">>), Some(<<"/", "ms", "?", "v">>), Some(<<"/", "ms", "/">>),
      Some(<<"/", "ms", "/", "index.html">>), Some(<<"/", "ms", "/", "app.js">>),
      Some(<<"/", "ms", "/", "app.js", "/">>), Some(<<"/", "ms", "/", "/", "app.js">>),
      Some(<<"/", "ms", "/", ".", "/", "app.js">>),
      Some(<<"/", "ms", "/", "assets">>), Some(<<"/", "ms", "/", "assets", "/">>),
      Some(<<"/", "ms", "/", "assets", "/", "..", "/", "app.js">>),
      Some(<<"/", "ms", "/", "style.css">>), Some(<<"/", "ms", "/", "..", "/", "etc">>) }
Methods == { "GET", "HEAD", "POST" }
Requests == { [url |-> u, method |-> m] : u \in Urls, m \in Methods }
Readability == { "file", "unreadable" }
FileSystems ==
    { [built |-> b, index |-> i, app |-> a] :
        b \in SUBSET { PackageRoot, Cwd }, i \in Readability, a \in Readability }
Environments ==
    { [argv1 |-> v, packageRoot |-> p, cwd |-> Cwd, fs |-> f] :
        v \in BOOLEAN, p \in { Null, Some(PackageRoot) }, f \in FileSystems }

HttpInit ==
    /\ stageEl = "null"
    /\ stage = InitialStage
    /\ windows = InitialWindows
    /\ dragActive = Null
    /\ dragPending = Null
    /\ dragRaf = Null
    /\ listeners = <<>>
    /\ presses = 0
    /\ resizes = 0
    /\ lastFront = "none"
    /\ lastMove = Null
    /\ lastRestore = Null
    /\ rafQueue = 0
    /\ mounted = TRUE
    /\ composerH = defaultComposerH
    /\ storage = Null
    /\ composerDrags = <<>>
    /\ gateway = initialGateway
    /\ \E q \in Requests, e \in Environments :
          http = [req |-> Some(q), env |-> Some(e), res |-> freshResponse, returned |-> Null]

(* The server hands the request and the response to the handler *)
HandleRequest ==
    /\ ~IsNull(http.req)
    /\ IsNull(http.returned)
    /\ LET out == handleMindsphereUiHttpRequest(Val(http.req), Val(http.env), http.res)
       IN http' = [http EXCEPT !.res = out.res, !.returned = Some(out.returned)]
    /\ UNCHANGED <<stageEl, stage, windows, dragActive, dragPending, dragRaf, listeners,
                   presses, resizes, lastFront, lastMove, lastRestore, rafQueue, mounted,
                   composerH, storage, composerDrags, gateway>>

HttpNext == HandleRequest

SpecHttp == HttpInit /\ [][HttpNext]_vars

----------------------------------------------------------------------------
(* Properties *)

Geometry(s) == Rect(s.x, s.y, s.w, s.h)

Contained(s, r) ==
    /\ s.x >= 0
    /\ s.y >= 0
    /\ s.x + s.w <= r.width
    /\ s.y + s.h <= r.height

(* C1: in every reachable state every open window lies inside the current
   stage rectangle: x >= 0, y >= 0, x + w <= stageWidth, y + h <= stageHeight. *)
C1_Containment ==
    stageEl = "stage" =>
        \A id \in WindowId : windows[id].open => Contained(windows[id], stage)

(* C2: the clamp is idempotent: clamping a clamped window state again, against
   the same stage rectangle, changes nothing (maximized or not). *)
C2_ClampIdempotent ==
    \A id \in WindowId :
        clampWindowToStage(id, clampWindowToStage(id, windows[id]))
            = clampWindowToStage(id, windows[id])

(* A non-maximized window that the clamp has changed, next to its raw input *)
C2_Witness ==
    /\ ~windows["chat"].maximized
    /\ windows["chat"] # windows["tasks"]
    /\ windows["chat"] = clampWindowToStage("chat", windows["tasks"])
    /\ windows["chat"].x # windows["tasks"].x
    /\ windows["chat"].w # windows["tasks"].w

(* C3: every open, non-maximized window is at least 320 x 240, unless the stage
   is smaller than the minimum in a dimension, and then the window has exactly
   the stage's size in that dimension. *)
C3_MinimumSize ==
    stageEl = "stage" =>
        \A id \in WindowId :
            (windows[id].open /\ ~windows[id].maximized) =>
                /\ IF stage.width >= minW THEN windows[id].w >= minW
                                          ELSE windows[id].w = stage.width
                /\ IF stage.height >= minH THEN windows[id].h >= minH
                                           ELSE windows[id].h = stage.height

FillsStage(s, width, height) == s.x = 0 /\ s.y = 0 /\ s.w = width /\ s.h = height

(* C4 as stated: every maximized window has x = 0, y = 0, w = stageWidth and
   h = stageHeight for the current stage. *)
C4_MaximizedFillsStage ==
    stageEl = "stage" =>
        \A id \in WindowId :
            windows[id].maximized => FillsStage(windows[id], stage.width, stage.height)

(* C4 as amended: every maximized window has x = 0, y = 0, w = floor(stageWidth)
   and h = floor(stageHeight) for the current stage, also after a resize while
   maximized; its restore rect is the geometry it had when toggleMaximizeWindow
   maximized it, and stays that while the window stays maximized. *)
C4_MaximizedFillsFlooredStage ==
    /\ [](stageEl = "stage" =>
            \A id \in WindowId :
                windows[id].maximized =>
                    FillsStage(windows[id], Floor(stage.width), Floor(stage.height)))
    /\ [][\A id \in WindowId :
            (~windows[id].maximized /\ windows'[id].maximized) =>
                windows'[id].restore = Some(Geometry(windows[id]))]_vars
    /\ [][\A id \in WindowId :
            (windows[id].maximized /\ windows'[id].maximized) =>
                windows'[id].restore = windows[id].restore]_vars

(* A window maximized on an earlier, larger stage, now on a fractional stage *)
C4_Witness ==
    \E id \in WindowId :
        /\ windows[id].maximized
        /\ resizes > 0
        /\ stage.width % Scale # 0
        /\ ~IsNull(windows[id].restore)
        /\ ~Contained(Val(windows[id].restore), stage)

(* C5: for every window, restore is set if and only if maximized is true. *)
C5_RestoreIffMaximized ==
    \A id \in WindowId : ~IsNull(windows[id].restore) <=> windows[id].maximized

(* A window maximized while a drag update for it is still pending *)
C5_Witness ==
    \E id \in WindowId :
        /\ windows[id].maximized
        /\ ~IsNull(dragPending)
        /\ Val(dragPending).id = id
        /\ ~Val(dragPending).next.maximized

(* C6: from every reachable state with an open normal window, two calls of
   toggleMaximizeWindow(id) against the same stage give back exactly the
   original x, y, w, h, with maximized false and restore cleared. *)
C6_MaximizeRoundTrip ==
    stageEl = "stage" =>
        \A id \in WindowId :
            (windows[id].open /\ ~windows[id].maximized) =>
                LET once == toggleMaximizeWindow(windows, id)
                    twice == toggleMaximizeWindow(once, id)[id]
                IN /\ once[id].maximized
                   /\ Geometry(twice) = Geometry(windows[id])
                   /\ ~twice.maximized
                   /\ IsNull(twice.restore)

(* C7: the window bring-to-front was last performed on has a z strictly greater
   than the z of every other open window. *)
C7_LastFrontIsTop ==
    lastFront # "none" =>
        \A j \in WindowId \ {lastFront} :
            windows[j].open => windows[lastFront].z > windows[j].z

(* C8: the z values of the windows are pairwise distinct. *)
C8_DistinctZ ==
    \A i, j \in WindowId : i # j => windows[i].z # windows[j].z

(* The geometry onMove computes for a recorded move event, against the stage
   rectangle of that moment *)
MoveResult(m) ==
    Geometry(ClampAt(m.stage, nextRaw(m.base, m.kind, m.px - m.startX, m.py - m.startY)))

(* C9: whatever number of move events came before it, the frame callback makes
   one commit: only the gesture's window changes, its geometry becomes the clamp
   of base displaced by the pointer delta of the last move event alone, and
   nothing stays pending or scheduled. *)
C9_FrameCoalescing ==
    [][(~IsNull(dragRaf) /\ IsNull(dragRaf')) =>
          /\ ~IsNull(lastMove)
          /\ \A j \in WindowId \ {Val(lastMove).id} : windows'[j] = windows[j]
          /\ Geometry(windows'[Val(lastMove).id]) = MoveResult(Val(lastMove))
          /\ IsNull(dragPending')]_vars

(* A commit has changed the geometry of the window of the gesture still active *)
C9_Witness ==
    /\ ~IsNull(dragActive)
    /\ IsNull(dragPending)
    /\ IsNull(dragRaf)
    /\ resizes = 0
    /\ ~windows[Val(dragActive).id].maximized
    /\ Geometry(windows[Val(dragActive).id]) # Geometry(Val(dragActive).base)

(* C10: the pending update of a released gesture is not lost: it stays pending
   until the frame callback commits it, and that commit gives the window the
   geometry of the last move event before the release. *)
C10_ReleasedUpdateCommitted ==
    [][(~IsNull(lastMove) /\ Val(lastMove).released) =>
          \/ (lastMove' = lastMove /\ dragPending' = dragPending)
          \/ /\ IsNull(dragPending')
             /\ Geometry(windows'[Val(lastMove).id]) = MoveResult(Val(lastMove))]_vars

(* A step of the animation frame callback *)
FrameStep == ~IsNull(dragRaf) /\ IsNull(dragRaf')

(* C11: no frame-callback commit changes x, y, w, h, maximized or restore of a
   window that is maximized when the commit fires. *)
C11_MaximizedNotDragged ==
    [][FrameStep =>
          \A id \in WindowId :
              windows[id].maximized =>
                  /\ Geometry(windows'[id]) = Geometry(windows[id])
                  /\ windows'[id].maximized = windows[id].maximized
                  /\ windows'[id].restore = windows[id].restore]_vars

(* The clamp against rectangle r leaves the geometry of s as it is *)
ClampFixed(s, r) == Geometry(ClampAt(r, s)) = Geometry(s)

(* C12: every geometry the frame callback commits is clamp-fixed against the
   stage rectangle that is current when the commit happens, also when the stage
   was resized between the move event and the frame callback. *)
C12_CommitValidForCurrentStage ==
    [][(FrameStep /\ ~IsNull(dragPending)) =>
          ClampFixed(windows'[Val(dragPending).id], stage')]_vars

(* C13: after a stage resize event every window, open or closed, is contained
   in the new stage; a normal window keeps w when w <= newWidth and is reduced
   to newWidth otherwise (h likewise), and x, y move only as far as containment
   needs. *)
C13_ReflowContainment ==
    [][resizes' # resizes =>
          \A id \in WindowId :
              /\ Contained(windows'[id], stage')
              /\ ~windows[id].maximized =>
                    /\ windows'[id].w = Min(windows[id].w, stage'.width)
                    /\ windows'[id].h = Min(windows[id].h, stage'.height)
                    /\ windows'[id].x =
                          Max(0, Min(windows[id].x, stage'.width - windows'[id].w))
                    /\ windows'[id].y =
                          Max(0, Min(windows[id].y, stage'.height - windows'[id].h))]_vars

(* C14: against a stage rectangle of non-positive width or height
   clampWindowToStage returns its input unchanged, maximized or not. *)
C14_DegenerateStageNoOp ==
    (stage.width <= 0 \/ stage.height <= 0) =>
        \A id \in WindowId : clampWindowToStage(id, windows[id]) = windows[id]

(* C15: bringToFront(id) on the window that already holds the maximum z
   changes no z and leaves the whole registry as it is, both as a function of
   the registry and in every pointerdown step on such a window. *)
C15_FocusNoOp ==
    /\ [](\A id \in WindowId :
             windows[id].z = ZTop(windows) => bringToFront(windows, id) = windows)
    /\ [][\A id \in WindowId :
             (windows[id].z = ZTop(windows) /\ PointerDownWindow(id)) =>
                 windows' = windows]_vars

(* A gesture has begun on a window that was below another open window: the
   press raised it by one, and the bubbled pointerdown on the window, which
   found it on top, raised it no further *)
C15_Witness ==
    /\ ~IsNull(dragActive)
    /\ LET id == Val(dragActive).id
       IN /\ windows[id].z = ZTop(windows)
          /\ windows[id].z > Val(dragActive).base.z
          /\ \E j \in WindowId \ {id} : windows[j].open /\ windows[j].z = windows[id].z - 1

(* C16 as stated: bringToFront(id) is a no-op whenever id has the maximum z
   among the open windows, the z of closed windows not being considered. *)
C16_NoOpWhenTopAmongOpen ==
    [][\A id \in WindowId :
          (windows[id].z = ZTopOpen(windows) /\ PointerDownWindow(id)) =>
              windows' = windows]_vars

(* C16 as amended: bringToFront(id) is a no-op whenever id has the maximum z
   among all windows, open or closed; otherwise it sets the z of id to that
   maximum plus one and changes nothing else. *)
C16_NoOpWhenTopAmongAll ==
    [][\A id \in WindowId :
          PointerDownWindow(id) =>
              IF windows[id].z = ZTop(windows)
              THEN windows' = windows
              ELSE windows' = [windows EXCEPT ![id].z = ZTop(windows) + 1]]_vars

(* A gesture has begun on the window that was on top of the open windows but
   below a closed one: the press has raised it to one above the closed window *)
C16_Witness ==
    /\ ~IsNull(dragActive)
    /\ LET id == Val(dragActive).id
           base == Val(dragActive).base
       IN /\ windows[id].open
          /\ \A j \in WindowId \ {id} : windows[j].open => windows[j].z < base.z
          /\ \E j \in WindowId \ {id} :
                /\ ~windows[j].open
                /\ windows[j].z > base.z
                /\ windows[j].z = ZTop([windows EXCEPT ![id] = base])
                /\ windows[id].z = windows[j].z + 1

(* C17: toggleWindow(id) leaves x, y, w, h, maximized and restore of id as they
   are, leaves every other window as it is, and leaves the z of id as it is when
   closing. *)
C17_ToggleOpenOnly ==
    \A id \in WindowId :
        LET after == toggleWindow(windows, id)
        IN /\ after[id].open = ~windows[id].open
           /\ Geometry(after[id]) = Geometry(windows[id])
           /\ after[id].maximized = windows[id].maximized
           /\ after[id].restore = windows[id].restore
           /\ \A j \in WindowId \ {id} : after[j] = windows[j]
           /\ windows[id].open => after[id].z = windows[id].z

(* C18: a stage resize leaves the restore rect of every maximized window, and
   open, z and maximized of every window, as they were. *)
C18_ReflowKeepsRestore ==
    [][resizes' # resizes =>
          \A id \in WindowId :
              /\ windows'[id].restore = windows[id].restore
              /\ windows'[id].open = windows[id].open
              /\ windows'[id].z = windows[id].z
              /\ windows'[id].maximized = windows[id].maximized]_vars

(* A window maximized before the resize fills the smaller stage and still
   holds the restore rect saved on the larger one *)
C18_Witness ==
    \E id \in WindowId :
        /\ resizes > 0
        /\ stage.width = Px(500) + 1
        /\ windows[id].maximized
        /\ FillsStage(windows[id], Floor(stage.width), Floor(stage.height))
        /\ ~IsNull(windows[id].restore)
        /\ Val(windows[id].restore).w > stage.width

(* C19: un-maximizing gives the window the clamp of its saved restore rect
   against the stage that is current at that moment, not the stage it was
   maximized on, with maximized false and restore cleared. *)
C19_RestoreClampedToCurrentStage ==
    [][\A id \in WindowId :
          (windows[id].maximized /\ ~IsNull(windows[id].restore) /\ ToggleMaximize(id)) =>
              LET q == Val(windows[id].restore)
                  saved == [windows[id] EXCEPT !.x = q.x, !.y = q.y, !.w = q.w, !.h = q.h,
                                               !.maximized = FALSE]
              IN /\ Geometry(windows'[id]) = Geometry(ClampAt(stage, saved))
                 /\ ~windows'[id].maximized
                 /\ IsNull(windows'[id].restore)]_vars

(* With no gesture begun so far, the last step un-maximized a window whose
   restore rect, saved on the stage it was maximized on, does not fit the stage
   of now: the window has that rect clamped, inside the stage *)
C19_Witness ==
    /\ ~IsNull(lastRestore)
    /\ presses = 0
    /\ resizes > 0
    /\ LET id == Val(lastRestore).id
           q == Val(lastRestore).restore
       IN /\ ~IsNull(q)
          /\ Val(q).x + Val(q).w > stage.width
          /\ ~windows[id].maximized
          /\ IsNull(windows[id].restore)
          /\ Geometry(windows[id]) # Val(q)
          /\ Contained(windows[id], stage)

(* C20: every move event derives its candidate from the base snapshot taken at
   press: base is the window's geometry at the press and does not change during
   the gesture, and after a move event the pending geometry is the clamp of base
   translated by (current - start) for a move gesture, of base with w, h
   increased by (current - start) for a resize gesture, whatever the earlier move
   events and the live registry state. *)
C20_CandidateFromBase ==
    /\ [][(presses' # presses) =>
             /\ ~IsNull(dragActive')
             /\ Geometry(Val(dragActive').base) = Geometry(windows[Val(dragActive').id])]_vars
    /\ [][(~IsNull(dragActive) /\ ~IsNull(dragActive') /\ presses' = presses) =>
             dragActive' = dragActive]_vars
    /\ [][\A p \in MovePoints :
             LET a == Val(dragActive)
                 candidate == nextRaw(a.base, a.kind, p[1] - a.startX, p[2] - a.startY)
             IN \/ IsNull(dragActive)
                \/ ~(/\ presses' = presses /\ resizes' = resizes /\ rafQueue' >= rafQueue
                     /\ \/ Matching = {}
                        \/ /\ ~IsNull(lastMove')
                           /\ Val(lastMove').px = p[1] /\ Val(lastMove').py = p[2]
                     /\ dragActive' = dragActive /\ stage' = stage /\ windows' = windows)
                \/ /\ ~IsNull(dragPending')
                   /\ Val(dragPending').id = a.id
                   /\ Geometry(Val(dragPending').next) = Geometry(ClampAt(stage, candidate))
                \/ ~PointerMove(p)]_vars

(* During a gesture an earlier move event has been committed, so the live
   geometry differs from base, and a later move event is pending with a
   geometry that differs from both *)
C20_Witness ==
    /\ ~IsNull(dragActive)
    /\ ~IsNull(dragPending)
    /\ LET a == Val(dragActive)
           p == Val(dragPending)
       IN /\ p.id = a.id
          /\ ~windows[a.id].maximized
          /\ Geometry(windows[a.id]) # Geometry(a.base)
          /\ Geometry(p.next) # Geometry(a.base)
          /\ Geometry(p.next) # Geometry(windows[a.id])

(* C21: at most one gesture is active at any instant, also after a second
   press before the first release: the idle/active state is that of exactly one
   gesture, so the move/release listeners attached to window are those of the
   gesture in dragActive and of no other, and none when idle. *)
C21_SingleGesture ==
    /\ IsNull(dragActive) => listeners = <<>>
    /\ ~IsNull(dragActive) =>
          listeners = <<[id |-> Val(dragActive).id, kind |-> Val(dragActive).kind]>>

(* C22: once the host view is unmounted, the pointermove and pointerup
   listeners of an active gesture are gone: no move or release event changes
   dragActive, the pending update or the registry any more. *)
C22_UnmountRemovesListeners ==
    [][(~mounted /\ (PointerUp \/ \E p \in MovePoints : PointerMove(p))) =>
          /\ dragActive' = dragActive
          /\ dragPending' = dragPending
          /\ windows' = windows]_vars

(* C23: a press that originates on a button nested in a window's header never
   starts a move gesture: it leaves dragActive as it is (null when idle),
   attaches no move/release listeners and creates no pending update. *)
C23_ButtonPressStartsNoGesture ==
    [][\A id \in WindowId :
          PointerDownButton(id) =>
              /\ dragActive' = dragActive
              /\ listeners' = listeners
              /\ dragPending' = dragPending
              /\ dragRaf' = dragRaf]_vars

(* The press on a header button leaves the state as it is, so the state it
   happens in is the state after it: idle, an open normal window on top whose
   header would begin a move gesture if pressed, and nothing attached or
   pending *)
C23_Witness ==
    \E id \in WindowId :
        /\ mounted
        /\ stageEl = "stage"
        /\ windows[id].open
        /\ ~windows[id].maximized
        /\ windows[id].z = ZTop(windows)
        /\ presses < MaxPress
        /\ ~beginDragRefused(windows[id], "move", FALSE)
        /\ beginDragRefused(windows[id], "move", TRUE)
        /\ IsNull(dragActive)
        /\ listeners = <<>>
        /\ IsNull(dragPending)
        /\ IsNull(lastRestore)

(* C24: for a single window the frame commits follow the order of the move
   events: the pending update is always that of the latest move event, a commit
   carries it and leaves nothing older behind to be committed later, so that the
   move events never committed are those a later move event superseded before
   the frame callback ran. *)
C24_CommitsInEventOrder ==
    /\ [](~IsNull(dragPending) =>
             /\ ~IsNull(lastMove)
             /\ Val(dragPending).id = Val(lastMove).id
             /\ Geometry(Val(dragPending).next) = MoveResult(Val(lastMove)))
    /\ [][(FrameStep /\ ~IsNull(dragPending)) =>
             /\ windows'[Val(dragPending).id] = Val(dragPending).next
             /\ IsNull(dragPending')
             /\ IsNull(lastMove')]_vars

(* An earlier move event of the gesture has been committed, and the last move
   event before the release, a different one, is pending *)
C24_Witness ==
    /\ ~IsNull(dragPending)
    /\ ~IsNull(lastMove)
    /\ Val(lastMove).released
    /\ LET id == Val(lastMove).id
       IN /\ Val(dragPending).id = id
          /\ resizes = 0
          /\ \A j \in WindowId : ~windows[j].maximized
          /\ Geometry(windows[id]) # Geometry(Val(lastMove).base)
          /\ Geometry(Val(dragPending).next) # Geometry(windows[id])
          /\ Geometry(Val(dragPending).next) # Geometry(Val(lastMove).base)

(* C25: for a normal window and a stage of positive size clampWindowToStage
   returns w' = max(320, min(w, max(320, stageWidth))), h' likewise with 240,
   then x' = x clamped into [0, stageWidth - w'] and y' into [0, stageHeight - h']
   with the clamped size, and nothing else changed; stage 1000x800 with a
   600x500 window at (700,750) gives (400,300) and the size unchanged. *)
C25_ClampFormula ==
    /\ (stage.width > 0 /\ stage.height > 0) =>
          \A id \in WindowId :
              ~windows[id].maximized =>
                  LET s == windows[id]
                      w == Max(Px(320), Min(s.w, Max(Px(320), stage.width)))
                      h == Max(Px(240), Min(s.h, Max(Px(240), stage.height)))
                      x == Max(0, Min(s.x, stage.width - w))
                      y == Max(0, Min(s.y, stage.height - h))
                  IN clampWindowToStage(id, s) =
                        [s EXCEPT !.x = x, !.y = y, !.w = w, !.h = h]
    /\ Geometry(ClampAt([width |-> Px(1000), height |-> Px(800)],
                        WinState(TRUE, Px(700), Px(750), Px(600), Px(500), 1)))
          = Rect(Px(400), Px(300), Px(600), Px(500))

(* A normal window that reached over the right and bottom edges of the stage,
   next to its raw input: it kept its size and was moved back by the excess *)
C25_Witness ==
    /\ stage.width > 0
    /\ ~windows["tasks"].maximized
    /\ windows["chat"] = clampWindowToStage("chat", windows["tasks"])
    /\ windows["tasks"].x + windows["tasks"].w > stage.width
    /\ windows["tasks"].y + windows["tasks"].h > stage.height
    /\ windows["chat"].w = windows["tasks"].w
    /\ windows["chat"].h = windows["tasks"].h
    /\ windows["chat"].x = stage.width - windows["chat"].w
    /\ windows["chat"].y = stage.height - windows["chat"].h
    /\ windows["chat"].x > 0
    /\ windows["chat"].y > 0

(* C26: the z update of toggleMaximizeWindow(id), in both directions, and of
   toggleWindow(id) when opening is exactly that of bringToFront(id): z of id is
   unchanged when id already holds the maximum z, and the maximum plus one
   otherwise. *)
C26_ZUpdateIsBringToFront ==
    [][\A id \in WindowId :
          (\/ windows'[id].maximized # windows[id].maximized /\ ToggleMaximize(id)
           \/ ~windows[id].open /\ windows'[id].open /\ ToggleWindow(id)) =>
              windows'[id].z = bringToFront(windows, id)[id].z]_vars

(* C26 as amended: toggleMaximizeWindow(id), in both directions, and
   toggleWindow(id) when opening set the z of id to the maximum z of all windows
   plus one, also when id already holds the maximum, and leave the z of every
   other window as it is; id is then strictly above every other window. *)
C26_ZUpdateAlwaysAboveTop ==
    [][\A id \in WindowId :
          (\/ windows'[id].maximized # windows[id].maximized /\ ToggleMaximize(id)
           \/ ~windows[id].open /\ windows'[id].open /\ ToggleWindow(id)) =>
              /\ windows'[id].z = ZTop(windows) + 1
              /\ \A j \in WindowId \ {id} :
                    /\ windows'[j].z = windows[j].z
                    /\ windows'[j].z < windows'[id].z]_vars

(* A window has just been restored from maximized and stands three above the
   initial top while every other window kept its initial z: it was raised
   again while it already was on top *)
C26_Witness ==
    /\ ~IsNull(lastRestore)
    /\ LET id == Val(lastRestore).id
       IN /\ windows[id].open
          /\ ~windows[id].maximized
          /\ windows[id].z = ZTop(InitialWindows) + 3
          /\ \A j \in WindowId \ {id} : windows[j].z = InitialWindows[j].z

(* C27: at most one animation-frame callback is outstanding at any time, the
   frame handle is set exactly while one is outstanding, a pending drag update
   always has a callback scheduled, and after the callback has run both the
   pending update and the frame handle are null. *)
C27_SingleFrameCallback ==
    /\ [](/\ rafQueue <= 1
          /\ ~IsNull(dragRaf) <=> rafQueue = 1
          /\ ~IsNull(dragPending) => ~IsNull(dragRaf))
    /\ [][FrameCallback =>
             IsNull(dragPending') /\ IsNull(dragRaf') /\ rafQueue' = 0]_vars

(* A move event has reached the two listeners of the active window, each has
   called scheduleDragUpdate, and a single callback is outstanding *)
C27_Witness ==
    /\ ~IsNull(dragActive)
    /\ Len(listeners) = 2
    /\ Matching = {1, 2}
    /\ ~IsNull(lastMove)
    /\ ~Val(lastMove).released
    /\ ~IsNull(dragPending)
    /\ ~IsNull(dragRaf)
    /\ rafQueue = 1

(* C28: on release dragActive becomes null and the pointermove and pointerup
   listeners are removed; while no gesture is active no listener is attached, a
   move event would leave the pending update and the frame handle as they are
   and request no frame, and no step creates a pending update or schedules a
   frame callback. *)
C28_ReleaseReturnsToIdle ==
    /\ [][PointerUp => IsNull(dragActive') /\ listeners' = <<>>]_vars
    /\ [](IsNull(dragActive) =>
             /\ listeners = <<>>
             /\ \A p \in MovePoints :
                   dispatchMove(1, p, dragPending, dragRaf) =
                      [pending |-> dragPending, raf |-> dragRaf, requests |-> 0])
    /\ [][IsNull(dragActive) =>
             /\ dragPending' = dragPending \/ IsNull(dragPending')
             /\ rafQueue' <= rafQueue]_vars

(* The second gesture has been released while its last update is still
   pending: no gesture is active and no listener is attached *)
C28_Witness ==
    /\ IsNull(dragActive)
    /\ listeners = <<>>
    /\ presses = 2
    /\ ~IsNull(lastMove)
    /\ Val(lastMove).released
    /\ ~IsNull(dragPending)
    /\ rafQueue = 1

(* C29: a press on the header or the resize handle of a maximized window does
   not start a gesture: beginDrag returns at once for either kind, and the
   press leaves dragActive, the listeners, the pending update and the frame
   handle as they are; the registry afterwards is the one left by the window's
   own pointerdown handler, bringToFront(id). *)
C29_MaximizedPressRefused ==
    /\ [](\A id \in WindowId : \A kind \in Kinds :
             windows[id].maximized => beginDragRefused(windows[id], kind, FALSE))
    /\ [][\A id \in WindowId :
             (windows[id].maximized /\
              \E p \in PressPoints : PointerDownHandle(id, "move", p)) =>
                 /\ dragActive' = dragActive
                 /\ listeners' = listeners
                 /\ dragPending' = dragPending
                 /\ dragRaf' = dragRaf
                 /\ windows' = bringToFront(windows, id)]_vars

(* A gesture on one window is active and the header of another window, open,
   maximized and on top, has just been pressed: the gesture is as it was *)
C29_Witness ==
    /\ mounted
    /\ stageEl = "stage"
    /\ presses < MaxPress
    /\ IsNull(lastRestore)
    /\ ~IsNull(dragActive)
    /\ listeners = <<[id |-> Val(dragActive).id, kind |-> Val(dragActive).kind]>>
    /\ \E id \in WindowId \ {Val(dragActive).id} :
          /\ windows[id].open
          /\ windows[id].maximized
          /\ windows[id].z = ZTop(windows)
          /\ lastFront = id

(* C30: the characters written to storage on release of a composer resize are
   String(composerH) of the height at release, from which firstUpdated would
   restore exactly that height; and firstUpdated sets composerH to exactly the
   stored number when it is finite and positive, and keeps the default 108
   otherwise. *)
C30_ComposerHeightRoundTrip ==
    /\ [][(PointerUp /\ composerDrags # <<>>) =>
             /\ composerH' = composerH
             /\ storage' = Some(String(composerH))
             /\ restoreComposerH(storage', defaultComposerH) = composerH]_vars
    /\ [][FirstUpdated =>
             LET savedH == Number(IF IsNull(storage) THEN <<>> ELSE Val(storage))
             IN IF savedH.kind = "number" /\ savedH.v > 0
                THEN String(composerH') = Val(storage)
                ELSE composerH' = Px(108)]_vars

(* A composer resize has ended at a height of a fractional number of pixels,
   and the height of the element is the one written in storage *)
C30_Witness ==
    /\ stageEl = "stage"
    /\ presses > 0
    /\ composerDrags = <<>>
    /\ ~IsNull(storage)
    /\ storage \notin StorageInputs
    /\ composerH % Scale # 0
    /\ composerH > composerMinH
    /\ String(composerH) = Val(storage)

(* C31: a drag frame commit changes only x, y, w, h of the gesture's window:
   open, z, maximized and restore of that window are after the commit what they
   were immediately before it, and every other window is unchanged. *)
C31_CommitChangesGeometryOnly ==
    [][(FrameStep /\ ~IsNull(dragPending)) =>
          \A id \in WindowId :
              IF id = Val(dragPending).id
              THEN /\ windows'[id].open = windows[id].open
                   /\ windows'[id].z = windows[id].z
                   /\ windows'[id].maximized = windows[id].maximized
                   /\ windows'[id].restore = windows[id].restore
              ELSE windows'[id] = windows[id]]_vars

(* C32: a resize gesture never changes the position of its window and a move
   gesture never changes its size: when the base of the gesture is valid for the
   current stage, the geometry a frame commit gives the window has x, y of base
   for a resize gesture, and w, h of base for a move gesture. *)
C32_GestureKeepsOtherPart ==
    [][(FrameStep /\ ~IsNull(dragPending) /\ ~IsNull(lastMove)) =>
          LET m == Val(lastMove)
              n == windows'[m.id]
          IN ClampFixed(m.base, stage) =>
                IF m.kind = "resize"
                THEN n.x = m.base.x /\ n.y = m.base.y
                ELSE n.w = m.base.w /\ n.h = m.base.h]_vars

(* C32 as amended: when the base of the gesture is valid for the stage of the
   move event that is committed, the geometry the frame commit gives the window
   has w, h of base for a move gesture; for a resize gesture x, y are those of
   base as long as the new size fits between them and the right and bottom
   edges of that stage, and are otherwise moved back to stageWidth - w,
   stageHeight - h (not below 0), never forward. *)
C32_ResizeShiftsOnlyToFit ==
    [][(FrameStep /\ ~IsNull(dragPending) /\ ~IsNull(lastMove)) =>
          LET m == Val(lastMove)
              n == windows'[m.id]
          IN ClampFixed(m.base, m.stage) =>
                IF m.kind = "resize"
                THEN /\ n.x = Min(m.base.x, Max(0, m.stage.width - n.w))
                     /\ n.y = Min(m.base.y, Max(0, m.stage.height - n.h))
                ELSE n.w = m.base.w /\ n.h = m.base.h]_vars

(* A resize gesture, still active, has been committed with a size that did not
   fit to the right of base: the window is wider than base and stands left of
   it, against the right edge of the stage *)
C32_Witness ==
    /\ ~IsNull(dragActive)
    /\ Val(dragActive).kind = "resize"
    /\ Len(listeners) = 1
    /\ IsNull(dragPending)
    /\ resizes = 0
    /\ LET id == Val(dragActive).id
           base == Val(dragActive).base
       IN /\ ~windows[id].maximized
          /\ ClampFixed(base, stage)
          /\ windows[id].w > base.w
          /\ windows[id].x < base.x
          /\ windows[id].x + windows[id].w = stage.width

----------------------------------------------------------------------------
(* C33: in every reachable state connected is true only if the client the
   element holds has received a hello and has not closed since; a client that
   connect() replaced never brings connected, hello or lastError out of step
   with the current client. *)
C33_ConnectedOnlyWhileCurrentClientOpen ==
    gateway.connected =>
        /\ gateway.client # 0
        /\ gateway.clients[gateway.client].socket = "open"

(* The element was detached after booting and the only client it ever made is
   connected *)
C33_Witness ==
    /\ gateway.booted /\ ~mounted
    /\ gateway.connected
    /\ gateway.client = 1 /\ Len(gateway.clients) = 1
    /\ gateway.clients[1].socket = "open"
    /\ gateway.hello = Some("hello-2")

(* The handler has answered the request itself *)
Handled == http.returned = Some("true")

SecurityHeaders ==
    { <<"X-Frame-Options", "DENY">>,
      <<"Content-Security-Policy", "frame-ancestors 'none'">>,
      <<"X-Content-Type-Options", "nosniff">> }

(* C34: every response the handler writes itself, the 404 responses for
   missing assets, unsafe paths and missing files included, carries the three
   security headers. *)
C34_HandledResponsesCarrySecurityHeaders ==
    Handled => SecurityHeaders \subseteq http.res.headers

(* The request is one the handler is to decline: no URL, a method other than
   GET and HEAD, or a path that is neither /ms nor under /ms/ *)
Declined(q) ==
    \/ IsNull(q.url) \/ Val(q.url) = <<>>
    \/ q.method \notin { "GET", "HEAD" }
    \/ LET url == URL(Val(q.url))
       IN \/ ~url.ok
          \/ url.pathname # ROOT_PREFIX /\ ~startsWith(url.pathname, ROOT_PREFIX \o <<"/">>)

(* C35: the handler returns false and leaves the response untouched exactly
   when the request has no URL, its method is neither GET nor HEAD, or its path
   is neither /ms nor under /ms/; in every other case it returns true and ends
   the response exactly once. *)
C35_DeclinesExactlyOutsidePrefix ==
    ~IsNull(http.returned) =>
        IF Declined(Val(http.req))
        THEN http.returned = Some("false") /\ http.res = freshResponse
        ELSE http.returned = Some("true") /\ http.res.ended = 1

====
